---- MODULE Spec2Model ----
(***************************************************************************)
(* Model of projectionmapping/__init__.py: the calibration grid            *)
(* (ProjectionMappingGrid), the calibration overlay                         *)
(* (ProjectionMappingCalibration) and the session (ProjectionMapping) with  *)
(* its keyboard handler and its calibration file.                           *)
(*                                                                          *)
(* Numbers.  Every float of the program is modelled as an exact rational    *)
(* <<n, d>> in lowest terms with d > 0.  An IEEE division is correctly      *)
(* rounded, so col / float(cols) depends only on the rational value of the  *)
(* quotient: two quotients are equal floats exactly when they are equal     *)
(* rationals.  An int of the program is the rational <<n, 1>> (Python       *)
(* compares 0 == 0.0 as equal).                                             *)
(*                                                                          *)
(* Lists.  A Python list is a sequence; list index k is position k + 1.     *)
(***************************************************************************)
EXTENDS Integers, Sequences, FiniteSets, TLC

VARIABLES
    rows,           \* ProjectionMappingGrid.rows
    cols,           \* ProjectionMappingGrid.cols
    line_vertices,  \* ProjectionMappingGrid.line_vertices: x, y, 0, 0 per point
    line_indices,   \* ProjectionMappingGrid.line_indices
    vertices,       \* ProjectionMappingGrid.vertices (g_mesh.vertices)
    indices,        \* ProjectionMappingGrid.indices (g_mesh.indices)
    show_help,      \* ProjectionMappingCalibration.show_help
    armed,          \* wid_calibration.parent is set (the overlay is attached)
    g_canvas,       \* ProjectionMappingCalibration.g_canvas: NoCanvas or the line mesh in it
    informations,   \* ProjectionMappingCalibration.informations: <<>> or <<cols, rows>>
    grab,           \* a touch is in progress and grabbed by the overlay
    touch_i,        \* touch.ud["i"] of that touch (-1: no touch, or none grabbed)
    file,           \* the contents of self.filename
    saved,          \* history: <<rows, cols, line_vertices>> at the last save, or NoSave
    error,          \* the exception that ended the program, or "none"
    event,          \* the event handled last: [type, arg]
    grown,          \* inputs taken so far that can grow the state (see MaxGrow)
    frag            \* the fragment shaded last: its varyings and its result, or NoFrag

vars == <<rows, cols, line_vertices, line_indices, vertices, indices, show_help,
          armed, g_canvas, informations, grab, touch_i, file, saved, error, event, grown,
          frag>>

grid_vars == <<rows, cols, line_vertices, line_indices, vertices, indices>>

(***************************************************************************)
(* Bounds of the model.                                                     *)
(***************************************************************************)
\* at most this many inputs that can grow the state in one behaviour: count
\* increments, saves and pointer gestures (direct set_vertice calls)
MaxGrow == 2

\* the largest rows and cols of a grid whose mesh is drawn
MaxPixelDim == 3

(***************************************************************************)
(* Rational arithmetic.                                                     *)
(***************************************************************************)
Abs(n) == IF n < 0 THEN -n ELSE n

Max(a, b) == IF a > b THEN a ELSE b

Min(a, b) == IF a < b THEN a ELSE b

RECURSIVE GCD(_, _)
GCD(a, b) == IF b = 0 THEN a ELSE GCD(b, a % b)

\* the rational n / d in lowest terms (d > 0)
Frac(n, d) == LET g == GCD(Abs(n), d) IN <<n \div g, d \div g>>

Zero == Frac(0, 1)

FInt(n) == Frac(n, 1)

FSub(a, b) == Frac(a[1] * b[2] - b[1] * a[2], a[2] * b[2])

FAdd(a, b) == Frac(a[1] * b[2] + b[1] * a[2], a[2] * b[2])

FMul(a, b) == Frac(a[1] * b[1], a[2] * b[2])

FLess(a, b) == a[1] * b[2] < b[1] * a[2]

FNeg(a) == <<-a[1], a[2]>>

FAbs(a) == <<Abs(a[1]), a[2]>>

\* a / b for b # 0
FDiv(a, b) ==
    IF b[1] < 0 THEN Frac(-(a[1] * b[2]), a[2] * (-b[1]))
    ELSE Frac(a[1] * b[2], a[2] * b[1])

\* the largest r in lo..hi with r * r <= n, for lo * lo <= n
RECURSIVE ISqrtIn(_, _, _)
ISqrtIn(n, lo, hi) ==
    IF lo = hi THEN lo
    ELSE LET mid == (lo + hi + 1) \div 2
         IN IF mid * mid <= n THEN ISqrtIn(n, mid, hi) ELSE ISqrtIn(n, lo, mid - 1)

\* the integer part of sqrt(n); the root of an integer below 2^31 is at most 46340
ISqrt(n) == ISqrtIn(n, 0, Min(n, 46340))

\* n is the square of a natural number
IsSquare(n) == ISqrt(n) * ISqrt(n) = n

\* a is the square of a rational (a is in lowest terms)
FIsSquare(a) == a[1] >= 0 /\ IsSquare(a[1]) /\ IsSquare(a[2])

\* sqrt(a) for a the square of a rational
FSqrt(a) == <<ISqrt(a[1]), ISqrt(a[2])>>

\* vec2 arithmetic
VSub(v, w) == <<FSub(v[1], w[1]), FSub(v[2], w[2])>>

VAdd(v, w) == <<FAdd(v[1], w[1]), FAdd(v[2], w[2])>>

VScale(k, v) == <<FMul(k, v[1]), FMul(k, v[2])>>

\* Python's s[i:j] for 0 <= i <= j: a slice never raises, it is cut at len(s)
PySlice(s, i, j) ==
    IF i >= Len(s) THEN <<>> ELSE SubSeq(s, i + 1, Min(j, Len(s)))

(***************************************************************************)
(* ProjectionMappingGrid.build_mapping.  A calibration of <<>> stands for   *)
(* both None and the empty list: `if calibration:` takes the default        *)
(* branch for either.                                                       *)
(***************************************************************************)
\* the division in `col / ncols` and `row / nrows` raises for a zero count
build_mapping_raises(r, c, calibration) ==
    calibration = <<>> /\ (r = 0 \/ c = 0)

\* the first n iterations of the row/col loops (row-major: row outer, col inner)
RECURSIVE build_mapping_loop(_, _, _, _)
build_mapping_loop(n, r, c, calibration) ==
    IF n = 0 THEN <<>>
    ELSE LET k == n - 1
             row == k \div (c + 1)
             col == k % (c + 1)
             i == 2 * (col + row * (c + 1))
         IN build_mapping_loop(n - 1, r, c, calibration) \o
            (IF calibration # <<>>
             THEN PySlice(calibration, i, i + 2) \o <<Zero, Zero>>
             ELSE <<Frac(col, c), Frac(row, r), Zero, Zero>>)

\* mutant: the two counts are taken the other way round
build_mapping_vertices_swapped(r, c, calibration) ==
    build_mapping_loop((r + 1) * (c + 1), c, r, calibration)

\* the value assigned to self.line_vertices
build_mapping_vertices(r, c, calibration) ==
    build_mapping_loop((r + 1) * (c + 1), r, c, calibration)

\* the first n iterations of the second pair of loops (row outer, col inner)
RECURSIVE build_mapping_indices_loop(_, _, _)
build_mapping_indices_loop(n, r, c) ==
    IF n = 0 THEN <<>>
    ELSE LET k == n - 1
             row == k \div c
             col == k % c
             i == col + row * (c + 1)
         IN build_mapping_indices_loop(n - 1, r, c) \o
            <<i, i + 1, i, i + (c + 1)>>

\* the value assigned to self.line_indices
build_mapping_indices(r, c) == build_mapping_indices_loop(r * c, r, c)

(***************************************************************************)
(* ProjectionMappingGrid.get_calibration.                                   *)
(***************************************************************************)
\* the first n iterations of `for i in range(0, len(v), 4)`
RECURSIVE get_calibration_loop(_, _)
get_calibration_loop(n, v) ==
    IF n = 0 THEN <<>>
    ELSE get_calibration_loop(n - 1, v) \o PySlice(v, 4 * (n - 1), 4 * (n - 1) + 2)

\* len(range(0, n, 4))
RangeBy4(n) == (n + 3) \div 4

\* mutant: the slice v[i:i + 4] instead of v[i:i + 2], so the padding is kept
get_calibration_padded(v) == v

get_calibration(v) == get_calibration_loop(RangeBy4(Len(v)), v)

(***************************************************************************)
(* ProjectionMappingGrid.build_grid.                                        *)
(***************************************************************************)
\* floats per mesh vertex (fmtsize)
VertexSize == 14

\* `dx = 1. / float(cols)` and `dy = 1. / float(rows)` raise for a zero count
build_grid_raises(r, c) == r = 0 \/ c = 0

\* mutant: the row stride is rows + 1 instead of cols + 1
build_grid_corners_rowstride(r, c, lv, col, row) ==
    LET i0 == 4 * (col + row * (r + 1))
        i1 == 4 * (col + (row + 1) * (r + 1))
        i2 == 4 * (1 + col + row * (r + 1))
        i3 == 4 * (1 + col + (row + 1) * (r + 1))
    IN PySlice(lv, i0, i0 + 2) \o PySlice(lv, i1, i1 + 2) \o
       PySlice(lv, i2, i2 + 2) \o PySlice(lv, i3, i3 + 2)

\* the 8 floats `corners` of the cell (col, row)
build_grid_corners(r, c, lv, col, row) ==
    LET i0 == 4 * (col + row * (c + 1))
        i1 == 4 * (col + (row + 1) * (c + 1))
        i2 == 4 * (1 + col + row * (c + 1))
        i3 == 4 * (1 + col + (row + 1) * (c + 1))
    IN PySlice(lv, i0, i0 + 2) \o PySlice(lv, i1, i1 + 2) \o
       PySlice(lv, i2, i2 + 2) \o PySlice(lv, i3, i3 + 2)

\* mutant: `data = [y, x, cols, rows]`
build_grid_cell_swapped(r, c, lv, col, row) ==
    LET corners == build_grid_corners(r, c, lv, col, row)
        data == <<Frac(row, r), Frac(col, c), FInt(c), FInt(r)>>
    IN PySlice(corners, 0, 2) \o corners \o data \o
       PySlice(corners, 2, 4) \o corners \o data \o
       PySlice(corners, 4, 6) \o corners \o data \o
       PySlice(corners, 6, 8) \o corners \o data

\* the 4 vertices the loop body appends for the cell (col, row)
build_grid_cell(r, c, lv, col, row) ==
    LET corners == build_grid_corners(r, c, lv, col, row)
        data == <<Frac(col, c), Frac(row, r), FInt(c), FInt(r)>>
    IN PySlice(corners, 0, 2) \o corners \o data \o
       PySlice(corners, 2, 4) \o corners \o data \o
       PySlice(corners, 4, 6) \o corners \o data \o
       PySlice(corners, 6, 8) \o corners \o data

\* the first n iterations of the vertex loops (col outer, row inner)
RECURSIVE build_grid_loop(_, _, _, _)
build_grid_loop(n, r, c, lv) ==
    IF n = 0 THEN <<>>
    ELSE LET k == n - 1
             col == k \div r
             row == k % r
         IN build_grid_loop(n - 1, r, c, lv) \o build_grid_cell(r, c, lv, col, row)

\* the value assigned to self.vertices
build_grid_vertices(r, c, lv) == build_grid_loop(r * c, r, c, lv)

\* the first n iterations of the index loops: i advances by 4 per cell
RECURSIVE build_grid_indices_loop(_)
build_grid_indices_loop(n) ==
    IF n = 0 THEN <<>>
    ELSE LET i == 4 * (n - 1)
         IN build_grid_indices_loop(n - 1) \o <<i, i + 3, i + 1, i, i + 2, i + 3>>

\* mutant: the index loops run over the points, not over the cells
build_grid_indices_points(r, c) == build_grid_indices_loop((r + 1) * (c + 1))

\* the value assigned to self.indices
build_grid_indices(r, c) == build_grid_indices_loop(r * c)

(***************************************************************************)
(* The shaders VS and FS.  A vertex is the record of its attributes, in the *)
(* order of build_grid's fmt: vPosition, vQuad0..vQuad3, vTex0, vSize, two  *)
(* floats each.  The arithmetic of the shaders is modelled over the         *)
(* rationals: the properties about them are about the values their          *)
(* formulas denote, not about the rounding of one GPU.                      *)
(***************************************************************************)
\* vertex j (from 0) of a vertex list
mesh_vertex(vs, j) ==
    LET o == VertexSize * j
    IN [vPosition |-> <<vs[o + 1], vs[o + 2]>>,
        vQuad0 |-> <<vs[o + 3], vs[o + 4]>>,
        vQuad1 |-> <<vs[o + 5], vs[o + 6]>>,
        vQuad2 |-> <<vs[o + 7], vs[o + 8]>>,
        vQuad3 |-> <<vs[o + 9], vs[o + 10]>>,
        vTex0 |-> <<vs[o + 11], vs[o + 12]>>,
        vSize |-> <<vs[o + 13], vs[o + 14]>>]

\* VS main: the varyings of one vertex
vs_main(v) ==
    [q |-> VSub(v.vPosition, v.vQuad0),
     q0 |-> v.vTex0,
     b1 |-> VSub(v.vQuad1, v.vQuad0),
     b2 |-> VSub(v.vQuad2, v.vQuad0),
     b3 |-> VAdd(VSub(VSub(v.vQuad0, v.vQuad1), v.vQuad2), v.vQuad3),
     vsize |-> v.vSize]

\* mutant: the wedge product with the sign of its second term changed
Wedge2D_sum(v, w) == FAdd(FMul(v[1], w[2]), FMul(v[2], w[1]))

Wedge2D(v, w) == FSub(FMul(v[1], w[2]), FMul(v[2], w[1]))

fs_A(f) == Wedge2D(f.b2, f.b3)

fs_B(f) == FSub(Wedge2D(f.b3, f.q), Wedge2D(f.b1, f.b2))

fs_C(f) == Wedge2D(f.b1, f.q)

\* `abs(A) < 0.001`
fs_linear(f) == FLess(FAbs(fs_A(f)), Frac(1, 1000))

fs_discrim(f) ==
    FSub(FMul(fs_B(f), fs_B(f)), FMul(FInt(4), FMul(fs_A(f), fs_C(f))))

\* the square root taken is a rational: the model can follow the fragment
fs_exact(f) == fs_linear(f) \/ FIsSquare(fs_discrim(f))

\* uv.y after `Solve for v`; undef is what a division by zero yields
fs_v(f, undef) ==
    IF fs_linear(f)
    THEN IF fs_B(f) = Zero THEN undef ELSE FDiv(FNeg(fs_C(f)), fs_B(f))
    ELSE FDiv(FMul(Frac(1, 2), FAdd(FNeg(fs_B(f)), FSqrt(fs_discrim(f)))), fs_A(f))

\* uv.x after `Solve for u, using largest-magnitude component`
fs_u(f, undef) ==
    LET v == fs_v(f, undef)
        denom == VAdd(f.b1, VScale(v, f.b3))
    IN IF FLess(FAbs(denom[2]), FAbs(denom[1]))
       THEN FDiv(FSub(f.q[1], FMul(f.b2[1], v)), denom[1])
       ELSE IF denom[2] = Zero THEN undef
       ELSE FDiv(FSub(f.q[2], FMul(f.b2[2], v)), denom[2])

\* mutant: the cell offset is added without the axis swap
fs_texcoord_unswapped(f, u, v) ==
    <<FAdd(FDiv(v, f.vsize[1]), f.q0[2]), FAdd(FDiv(u, f.vsize[2]), f.q0[1])>>

\* the argument vec2(uv.y, uv.x) of texture2D, after the four updates of uv
fs_texcoord(f, u, v) ==
    <<FAdd(FDiv(v, f.vsize[1]), f.q0[1]), FAdd(FDiv(u, f.vsize[2]), f.q0[2])>>

\* FS main on the varyings f: the branch taken, uv as solved, and the
\* texture coordinate sampled
fs_main(f, undef) ==
    [branch |-> IF fs_linear(f) THEN "linear" ELSE "quadratic",
     uv |-> <<fs_u(f, undef), fs_v(f, undef)>>,
     texcoord |-> fs_texcoord(f, fs_u(f, undef), fs_v(f, undef))]

\* a varying at a fragment: the values at the 3 vertices of its triangle,
\* weighted by the barycentric coordinates w of the fragment
Interpolate(w, x) ==
    VAdd(VScale(w[1], x[1]), VAdd(VScale(w[2], x[2]), VScale(w[3], x[3])))

(***************************************************************************)
(* ProjectionMappingGrid.set_vertice.  The two list assignments raise       *)
(* IndexError past the end of line_vertices, the second after the first     *)
(* has been made.                                                           *)
(***************************************************************************)
set_vertice_raises(lv, i) == 4 * i + 1 >= Len(lv)

\* line_vertices after the assignments that are made
set_vertice_vertices(lv, i, sx, sy) ==
    [k \in 1..Len(lv) |->
        IF k = 4 * i + 1 THEN sx
        ELSE IF k = 4 * i + 2 THEN sy
        ELSE lv[k]]

(***************************************************************************)
(* ProjectionMappingCalibration.on_touch_down: the nearest point.           *)
(* Vector.distance is sqrt(dx^2 + dy^2); the model compares the squares,    *)
(* which orders the distances the same way.                                 *)
(***************************************************************************)
distance2(p, vt) ==
    FAdd(FMul(FSub(p[1], vt[1]), FSub(p[1], vt[1])),
         FMul(FSub(p[2], vt[2]), FSub(p[2], vt[2])))

\* Vector(v[i4:i4 + 2]).distance(vt) raises IndexError on a slice of one float
on_touch_down_raises(v) == Len(v) % 4 = 1

\* min_i and min_dist after the first n iterations; inf is float("inf")
RECURSIVE on_touch_down_loop(_, _, _)
on_touch_down_loop(n, v, vt) ==
    IF n = 0 THEN [min_i |-> -1, inf |-> TRUE, min_dist |-> Zero]
    ELSE LET prev == on_touch_down_loop(n - 1, v, vt)
             d == distance2(PySlice(v, 4 * (n - 1), 4 * (n - 1) + 2), vt)
         IN IF prev.inf \/ FLess(d, prev.min_dist)
            THEN [min_i |-> n - 1, inf |-> FALSE, min_dist |-> d]
            ELSE prev

\* mutant: `min_dist >= d`, so the last of the nearest points is taken
on_touch_down_index_last(v, vt) ==
    CHOOSE i \in 0..(RangeBy4(Len(v)) - 1) :
        \A j \in 0..(RangeBy4(Len(v)) - 1) :
            LET di == distance2(PySlice(v, 4 * i, 4 * i + 2), vt)
                dj == distance2(PySlice(v, 4 * j, 4 * j + 2), vt)
            IN ~FLess(dj, di) /\ (j > i => FLess(di, dj))

\* the index stored in touch.ud["i"]
on_touch_down_index(v, vt) == on_touch_down_loop(RangeBy4(Len(v)), v, vt).min_i

(***************************************************************************)
(* The calibration file.  json.dump of a dict of ints and floats followed   *)
(* by json.load gives back equal values (Python writes the shortest repr    *)
(* that reads back to the same float), so a file is modelled by the value   *)
(* it parses to: the keys present and the value under each.                 *)
(***************************************************************************)
NoFile == [kind |-> "missing", keys |-> {}, rows |-> 0, cols |-> 0, calibration |-> <<>>]

Garbage == [kind |-> "garbage", keys |-> {}, rows |-> 0, cols |-> 0, calibration |-> <<>>]

JsonFile(ks, r, c, cal) ==
    [kind |-> "json", keys |-> ks, rows |-> r, cols |-> c, calibration |-> cal]

AllKeys == {"rows", "cols", "calibration"}

\* the file save_calibration writes
save_calibration_file(r, c, lv) == JsonFile(AllKeys, r, c, get_calibration(lv))

\* a calibration of the 4 points of a 1x1 grid, the last one off the lattice
Cal4 == <<Zero, Zero, FInt(1), Zero, Zero, FInt(1), Frac(9, 10), Frac(4, 5)>>

\* the files a session may find when it starts
FileInputs ==
    { NoFile, Garbage,
      JsonFile({"cols", "calibration"}, 0, 1, Cal4),
      JsonFile({"rows", "cols"}, 1, 1, <<>>),
      JsonFile(AllKeys, 1, 1, Cal4),
      JsonFile(AllKeys, 1, 1, <<Frac(1, 2), Frac(1, 2)>>),
      JsonFile(AllKeys, 0, 1, SubSeq(Cal4, 1, 4)) }

(***************************************************************************)
(* ProjectionMapping.load_calibration on the grid g (a record of the grid's *)
(* fields): the grid it leaves and the exception it raises, if any.  Only   *)
(* open() and json.load() are inside the try.                               *)
(***************************************************************************)
Grid(r, c, lv, li, vs, is) ==
    [rows |-> r, cols |-> c, line_vertices |-> lv, line_indices |-> li,
     vertices |-> vs, indices |-> is]

load_calibration_grid(f, g) ==
    IF f.kind # "json" THEN g
    ELSE IF "rows" \notin f.keys THEN g
    ELSE IF "cols" \notin f.keys THEN [g EXCEPT !.rows = f.rows]
    ELSE IF "calibration" \notin f.keys \/ build_mapping_raises(f.rows, f.cols, f.calibration)
    THEN [g EXCEPT !.rows = f.rows, !.cols = f.cols]
    ELSE LET lv == build_mapping_vertices(f.rows, f.cols, f.calibration)
             li == build_mapping_indices(f.rows, f.cols)
         IN IF build_grid_raises(f.rows, f.cols)
            THEN Grid(f.rows, f.cols, lv, li, g.vertices, g.indices)
            ELSE Grid(f.rows, f.cols, lv, li,
                      build_grid_vertices(f.rows, f.cols, lv),
                      build_grid_indices(f.rows, f.cols))

load_calibration_error(f) ==
    IF f.kind # "json" THEN "none"
    ELSE IF ~(AllKeys \subseteq f.keys) THEN "KeyError"
    ELSE IF build_mapping_raises(f.rows, f.cols, f.calibration)
            \/ build_grid_raises(f.rows, f.cols)
    THEN "ZeroDivisionError"
    ELSE "none"

\* the except branch was taken: the file could not be opened or parsed
load_calibration_caught(f) == f.kind # "json"

(***************************************************************************)
(* Construction.  ProjectionMappingGrid.__init__ builds the default 2x2     *)
(* grid; ProjectionMapping.__init__ detaches the overlay and loads the      *)
(* calibration file.                                                        *)
(***************************************************************************)
DefaultDim == 2

NoCanvas == <<>>

NoSave == <<>>

NoFrag == <<>>

default_grid ==
    LET lv == build_mapping_vertices(DefaultDim, DefaultDim, <<>>)
    IN Grid(DefaultDim, DefaultDim, lv, build_mapping_indices(DefaultDim, DefaultDim),
            build_grid_vertices(DefaultDim, DefaultDim, lv),
            build_grid_indices(DefaultDim, DefaultDim))

Event(t, a) == [type |-> t, arg |-> a]

\* the positions (touch.sx, touch.sy) a pointer event may carry
TouchPos == << <<Frac(9, 10), Frac(9, 10)>>, <<Frac(1, 4), Frac(1, 4)>> >>

Init ==
    \E f \in FileInputs :
        LET g == load_calibration_grid(f, default_grid)
        IN /\ rows = g.rows
           /\ cols = g.cols
           /\ line_vertices = g.line_vertices
           /\ line_indices = g.line_indices
           /\ vertices = g.vertices
           /\ indices = g.indices
           /\ show_help = TRUE
           /\ armed = FALSE
           /\ g_canvas = NoCanvas
           /\ informations = <<>>
           /\ grab = FALSE
           /\ touch_i = -1
           /\ file = f
           /\ saved = NoSave
           /\ error = load_calibration_error(f)
           /\ event = Event("init", 0)
           /\ grown = 0
           /\ frag = NoFrag

(***************************************************************************)
(* Pieces of handlers, as actions on the variables they assign.             *)
(***************************************************************************)
\* build_grid() on the grid as the handler leaves it
build_grid ==
    /\ vertices' = build_grid_vertices(rows', cols', line_vertices')
    /\ indices' = build_grid_indices(rows', cols')

\* mutant: the rebuild keeps the current calibration
build_mapping_keeping ==
    /\ line_vertices' = build_mapping_vertices(rows', cols', get_calibration(line_vertices))
    /\ line_indices' = build_mapping_indices(rows', cols')

\* build_mapping() with no calibration, on the counts the handler has set
build_mapping ==
    /\ line_vertices' = build_mapping_vertices(rows', cols', <<>>)
    /\ line_indices' = build_mapping_indices(rows', cols')

\* mutant: set_vertice without its last line, the call of build_grid()
set_vertice_no_rebuild(i, sx, sy) ==
    /\ line_vertices' = set_vertice_vertices(line_vertices, i, sx, sy)
    /\ UNCHANGED <<rows, cols, line_indices, vertices, indices>>
    /\ error' = IF set_vertice_raises(line_vertices, i) THEN "IndexError" ELSE error

\* set_vertice(i, sx, sy): the two assignments, then build_grid()
set_vertice(i, sx, sy) ==
    /\ line_vertices' = set_vertice_vertices(line_vertices, i, sx, sy)
    /\ UNCHANGED <<rows, cols, line_indices>>
    /\ IF set_vertice_raises(line_vertices, i)
       THEN error' = "IndexError" /\ UNCHANGED <<vertices, indices>>
       ELSE error' = error /\ build_grid

\* show_lines(): a new canvas holding the line mesh; rebuild_informations()
show_lines ==
    /\ g_canvas' = <<line_vertices', line_indices'>>
    /\ informations' = <<cols', rows'>>

\* hide_lines(): the canvas is removed and forgotten
hide_lines == g_canvas' = NoCanvas

\* hide_projection(): detach the overlay, hide_lines()
hide_projection == armed' = FALSE /\ hide_lines /\ UNCHANGED informations

\* show_projection(): attach the overlay, show_lines()
show_projection == armed' = TRUE /\ show_lines

\* toggle_projection()
toggle_projection == IF armed THEN hide_projection ELSE show_projection

\* load_calibration() in a running session
load_calibration ==
    LET g == load_calibration_grid(file, Grid(rows, cols, line_vertices, line_indices,
                                               vertices, indices))
    IN /\ rows' = g.rows
       /\ cols' = g.cols
       /\ line_vertices' = g.line_vertices
       /\ line_indices' = g.line_indices
       /\ vertices' = g.vertices
       /\ indices' = g.indices
       /\ error' = load_calibration_error(file)
       /\ IF error' = "none" /\ ~load_calibration_caught(file) /\ armed
          THEN show_projection
          ELSE UNCHANGED <<armed, g_canvas, informations>>

(***************************************************************************)
(* ProjectionMappingCalibration.rebuild_informations: the keys the help     *)
(* text names, "x/c: Remove/add a column" and "v/b: Remove/add a row".      *)
(***************************************************************************)
rebuild_informations_keys ==
    [remove_column |-> 120, add_column |-> 99, remove_row |-> 118, add_row |-> 98]

(***************************************************************************)
(* ProjectionMapping.bind_keyboard.on_key_down.                             *)
(***************************************************************************)
KEY_F2 == 283
KEY_SPACE == 32
KEY_X == 120
KEY_C == 99
KEY_V == 118
KEY_B == 98
KEY_R == 114
KEY_S == 115
KEY_L == 108

\* the bound keys and one key the handler has no branch for ('a')
Keys == {KEY_F2, KEY_SPACE, KEY_X, KEY_C, KEY_V, KEY_B, KEY_R, KEY_S, KEY_L, 97}

on_key_down_rows(code, r) ==
    IF code = KEY_X THEN Max(1, r - 1)
    ELSE IF code = KEY_C THEN r + 1
    ELSE r

on_key_down_cols(code, c) ==
    IF code = KEY_V THEN Max(1, c - 1)
    ELSE IF code = KEY_B THEN c + 1
    ELSE c

\* mutant: the check of the overlay's parent is missing
on_key_down_ignores_never == FALSE

\* `if not self.wid_calibration.parent: return`
on_key_down_ignores == ~armed

\* the branch of the handler that `code` takes, with the code where the branch
\* serves several keys
on_key_down_event(code) ==
    IF code = KEY_F2 THEN Event("toggle", 0)
    ELSE IF on_key_down_ignores THEN Event("ignored", 0)
    ELSE IF code = KEY_SPACE THEN Event("help", 0)
    ELSE IF code \in {KEY_X, KEY_C, KEY_V, KEY_B, KEY_R} THEN Event("count", code)
    ELSE IF code = KEY_S THEN Event("save", 0)
    ELSE IF code = KEY_L THEN Event("load", 0)
    ELSE Event("unbound", 0)

\* the key is one the model counts against MaxGrow
on_key_down_grows(code) == ~on_key_down_ignores /\ code \in {KEY_C, KEY_B, KEY_S}

on_key_down(code) ==
    /\ error = "none"
    /\ on_key_down_grows(code) => grown < MaxGrow
    /\ grown' = IF on_key_down_grows(code) THEN grown + 1 ELSE grown
    /\ event' = on_key_down_event(code)
    /\ UNCHANGED <<grab, touch_i, frag>>
    /\ IF code = KEY_F2
       THEN /\ UNCHANGED <<grid_vars, show_help, file, saved, error>>
            /\ toggle_projection
       ELSE IF on_key_down_ignores
       THEN UNCHANGED <<grid_vars, show_help, armed, g_canvas, informations, file, saved,
                        error>>
       ELSE IF code = KEY_SPACE
       THEN /\ show_help' = ~show_help
            /\ UNCHANGED <<grid_vars, armed, g_canvas, informations, file, saved, error>>
       ELSE IF code \in {KEY_X, KEY_C, KEY_V, KEY_B, KEY_R}
       THEN /\ rows' = on_key_down_rows(code, rows)
            /\ cols' = on_key_down_cols(code, cols)
            /\ build_mapping
            /\ build_grid
            /\ show_projection
            /\ UNCHANGED <<show_help, file, saved, error>>
       ELSE IF code = KEY_S
       THEN /\ file' = save_calibration_file(rows, cols, line_vertices)
            /\ saved' = <<rows, cols, line_vertices>>
            /\ UNCHANGED <<grid_vars, show_help, armed, g_canvas, informations, error>>
       ELSE IF code = KEY_L
       THEN /\ load_calibration
            /\ UNCHANGED <<show_help, file, saved>>
       ELSE UNCHANGED <<grid_vars, show_help, armed, g_canvas, informations, file, saved,
                        error>>

(***************************************************************************)
(* ProjectionMappingCalibration.on_touch_down / on_touch_move / on_touch_up *)
(* for the touch at TouchPos[p].  A down reaches the overlay only while it  *)
(* is attached; a move or an up of a grabbed touch reaches it either way.   *)
(***************************************************************************)
on_touch_down(p) ==
    /\ error = "none"
    /\ armed
    /\ ~grab
    /\ grown < MaxGrow
    /\ grown' = grown + 1
    /\ event' = Event("touch_down", p)
    /\ IF on_touch_down_raises(line_vertices)
       THEN error' = "IndexError" /\ UNCHANGED <<grab, touch_i>>
       ELSE /\ touch_i' = on_touch_down_index(line_vertices, TouchPos[p])
            /\ grab' = TRUE
            /\ UNCHANGED error
    /\ UNCHANGED <<grid_vars, show_help, armed, g_canvas, informations, file, saved, frag>>

\* update_mesh(): hide_lines() then show_lines()
update_mesh == show_lines

on_touch_move(p) ==
    /\ error = "none"
    /\ grab
    /\ event' = Event("touch_move", p)
    /\ set_vertice(touch_i, TouchPos[p][1], TouchPos[p][2])
    /\ IF error' = "none" THEN update_mesh ELSE UNCHANGED <<g_canvas, informations>>
    /\ UNCHANGED <<show_help, armed, grab, touch_i, file, saved, grown, frag>>

on_touch_up(p) ==
    /\ error = "none"
    /\ grab
    /\ event' = Event("touch_up", p)
    /\ set_vertice(touch_i, TouchPos[p][1], TouchPos[p][2])
    /\ IF error' = "none" THEN update_mesh ELSE UNCHANGED <<g_canvas, informations>>
    /\ grab' = FALSE
    /\ touch_i' = -1
    /\ UNCHANGED <<show_help, armed, file, saved, grown, frag>>

(***************************************************************************)
(* A new session is constructed on the same file (the program is started    *)
(* again, after it was closed or after an exception ended it).              *)
(***************************************************************************)
Restart ==
    LET g == load_calibration_grid(file, default_grid)
    IN /\ rows' = g.rows
       /\ cols' = g.cols
       /\ line_vertices' = g.line_vertices
       /\ line_indices' = g.line_indices
       /\ vertices' = g.vertices
       /\ indices' = g.indices
       /\ show_help' = TRUE
       /\ armed' = FALSE
       /\ g_canvas' = NoCanvas
       /\ informations' = <<>>
       /\ grab' = FALSE
       /\ touch_i' = -1
       /\ error' = load_calibration_error(file)
       /\ event' = Event("restart", 0)
       /\ UNCHANGED <<file, saved, grown, frag>>

Next ==
    \/ \E code \in Keys : on_key_down(code)
    \/ \E p \in 1..Len(TouchPos) : on_touch_down(p)
    \/ \E p \in 1..Len(TouchPos) : on_touch_move(p)
    \/ \E p \in 1..Len(TouchPos) : on_touch_up(p)
    \/ Restart

Spec == Init /\ [][Next]_vars

(***************************************************************************)
(* The grid on its own: ProjectionMappingGrid as constructed, and its       *)
(* methods called directly on it, with no session around it.                *)
(***************************************************************************)
InitGrid ==
    /\ rows = default_grid.rows
    /\ cols = default_grid.cols
    /\ line_vertices = default_grid.line_vertices
    /\ line_indices = default_grid.line_indices
    /\ vertices = default_grid.vertices
    /\ indices = default_grid.indices
    /\ show_help = TRUE
    /\ armed = FALSE
    /\ g_canvas = NoCanvas
    /\ informations = <<>>
    /\ grab = FALSE
    /\ touch_i = -1
    /\ file = NoFile
    /\ saved = NoSave
    /\ error = "none"
    /\ event = Event("init", 0)
    /\ grown = 0
    /\ frag = NoFrag

session_vars == <<show_help, armed, g_canvas, informations, grab, touch_i, file, saved>>


\* rows and cols are set, then build_mapping() and build_grid()
grid_rebuild(r, c) ==
    /\ (r > rows \/ c > cols) => grown < MaxGrow
    /\ grown' = IF r > rows \/ c > cols THEN grown + 1 ELSE grown
    /\ rows' = r
    /\ cols' = c
    /\ build_mapping
    /\ build_grid
    /\ event' = Event("build_mapping", 0)
    /\ UNCHANGED <<session_vars, error, frag>>

\* build_mapping(calibration=get_calibration()), then build_grid()
grid_round_trip ==
    /\ UNCHANGED <<rows, cols>>
    /\ line_vertices' = build_mapping_vertices(rows, cols, get_calibration(line_vertices))
    /\ line_indices' = build_mapping_indices(rows, cols)
    /\ build_grid
    /\ event' = Event("round_trip", 0)
    /\ UNCHANGED <<session_vars, error, grown, frag>>

\* set_vertice(i, sx, sy) for a valid index i and the position TouchPos[p]
grid_set_vertice(i, p) ==
    /\ error = "none"
    /\ grown < MaxGrow
    /\ grown' = grown + 1
    /\ set_vertice(i, TouchPos[p][1], TouchPos[p][2])
    /\ event' = Event("set_vertice", i)
    /\ UNCHANGED <<session_vars, frag>>

NextGrid ==
    \/ \E r \in {Max(1, rows - 1), rows, rows + 1}, c \in {Max(1, cols - 1), cols, cols + 1} :
          grid_rebuild(r, c)
    \/ grid_round_trip
    \/ \E i \in 0..(RangeBy4(Len(line_vertices)) - 1), p \in 1..Len(TouchPos) :
          grid_set_vertice(i, p)

SpecGrid == InitGrid /\ [][NextGrid]_vars

(***************************************************************************)
(* The mesh on the GPU: a grid is built, one of its points is moved or      *)
(* none, and fragments of its triangles are shaded by VS and FS.  Quads     *)
(* that are no cell of a grid are shaded the same way from their            *)
(* attributes.                                                              *)
(***************************************************************************)
Vec(xn, xd, yn, yd) == <<Frac(xn, xd), Frac(yn, yd)>>

Quad(a, b, c, d) ==
    [vPosition |-> a, vQuad0 |-> a, vQuad1 |-> b, vQuad2 |-> c, vQuad3 |-> d,
     vTex0 |-> Vec(0, 1, 0, 1), vSize |-> Vec(1, 1, 1, 1)]

\* the quads shaded on their own: the unit square with b1 = (0,1), b2 = (1,0);
\* the one with b1 = (1,0), b2 = (0,1); two sheared parallelograms; a quad
\* that is no parallelogram; a quad collapsed to a segment
Quads ==
    << Quad(Vec(0, 1, 0, 1), Vec(0, 1, 1, 1), Vec(1, 1, 0, 1), Vec(1, 1, 1, 1)),
       Quad(Vec(0, 1, 0, 1), Vec(1, 1, 0, 1), Vec(0, 1, 1, 1), Vec(1, 1, 1, 1)),
       Quad(Vec(1, 2, 0, 1), Vec(3, 2, 1, 2), Vec(3, 4, 1, 1), Vec(7, 4, 3, 2)),
       Quad(Vec(0, 1, 0, 1), Vec(1, 2, 1, 1), Vec(1, 1, 0, 1), Vec(3, 2, 1, 1)),
       Quad(Vec(0, 1, 0, 1), Vec(0, 1, 1, 1), Vec(1, 1, 0, 1), Vec(2, 1, 2, 1)),
       Quad(Vec(0, 1, 0, 1), Vec(1, 1, 0, 1), Vec(1, 1, 0, 1), Vec(2, 1, 0, 1)) >>

\* the bilinear coordinates of the fragments shaded in a quad
Coords == {Frac(0, 1), Frac(3, 10), Frac(2, 5), Frac(1, 2)}

\* the barycentric coordinates of the fragments shaded in a triangle
Weights ==
    { <<Frac(1, 1), Frac(0, 1), Frac(0, 1)>>,
      <<Frac(0, 1), Frac(0, 1), Frac(1, 1)>>,
      <<Frac(1, 2), Frac(1, 2), Frac(0, 1)>>,
      <<Frac(1, 3), Frac(1, 3), Frac(1, 3)>>,
      <<Frac(1, 2), Frac(1, 4), Frac(1, 4)>> }

\* what a division by zero in the fragment shader may yield
UndefinedFloats == {Frac(0, 1), Frac(1, 1)}

\* the position of the fragment of quad v at the bilinear coordinates at
PixelAt(v, at) ==
    LET f == vs_main([v EXCEPT !.vPosition = v.vQuad0])
    IN VAdd(v.vQuad0,
            VAdd(VScale(at[1], f.b1),
                 VAdd(VScale(at[2], f.b2), VScale(FMul(at[1], at[2]), f.b3))))

InitPixel ==
    \E r \in 1..MaxPixelDim, c \in 1..MaxPixelDim, m \in 0..Len(TouchPos) :
        LET lv0 == build_mapping_vertices(r, c, <<>>)
            lv == IF m = 0 THEN lv0
                  ELSE set_vertice_vertices(lv0, (r + 1) * (c + 1) - 1,
                                            TouchPos[m][1], TouchPos[m][2])
        IN /\ rows = r
           /\ cols = c
           /\ line_vertices = lv
           /\ line_indices = build_mapping_indices(r, c)
           /\ vertices = build_grid_vertices(r, c, lv)
           /\ indices = build_grid_indices(r, c)
           /\ show_help = TRUE
           /\ armed = FALSE
           /\ g_canvas = NoCanvas
           /\ informations = <<>>
           /\ grab = FALSE
           /\ touch_i = -1
           /\ file = NoFile
           /\ saved = NoSave
           /\ error = "none"
           /\ event = Event("init", 0)
           /\ grown = 0
           /\ frag = NoFrag

\* the fragment with varyings f at position p is shaded.  Shading leaves
\* nothing behind for the next fragment: a behaviour follows one fragment.
shade(src, f, p, at) ==
    /\ frag = NoFrag
    /\ fs_exact(f)
    /\ \E undef \in UndefinedFloats :
          LET r == fs_main(f, undef)
          IN frag' = [src |-> src, varyings |-> f, vPosition |-> p, at |-> at,
                      branch |-> r.branch, uv |-> r.uv, texcoord |-> r.texcoord]
    /\ UNCHANGED <<grid_vars, session_vars, error, grown>>

\* a fragment of triangle t of the mesh, at the barycentric coordinates w
draw_triangle(t, w) ==
    LET v == [k \in 1..3 |-> mesh_vertex(vertices, indices[3 * t + k])]
        o == [k \in 1..3 |-> vs_main(v[k])]
        f == [q |-> Interpolate(w, <<o[1].q, o[2].q, o[3].q>>),
              q0 |-> Interpolate(w, <<o[1].q0, o[2].q0, o[3].q0>>),
              b1 |-> Interpolate(w, <<o[1].b1, o[2].b1, o[3].b1>>),
              b2 |-> Interpolate(w, <<o[1].b2, o[2].b2, o[3].b2>>),
              b3 |-> Interpolate(w, <<o[1].b3, o[2].b3, o[3].b3>>),
              vsize |-> Interpolate(w, <<o[1].vsize, o[2].vsize, o[3].vsize>>)]
        p == Interpolate(w, <<v[1].vPosition, v[2].vPosition, v[3].vPosition>>)
    IN /\ shade("mesh", f, p, <<>>)
       /\ event' = Event("draw_triangle", t)

\* the fragment of the quad Quads[n] at the bilinear coordinates at
draw_quad(n, at) ==
    LET p == PixelAt(Quads[n], at)
        f == vs_main([Quads[n] EXCEPT !.vPosition = p])
    IN /\ shade("quad", f, p, at)
       /\ event' = Event("draw_quad", n)

NextPixel ==
    \/ \E t \in 0..((Len(indices) \div 3) - 1), w \in Weights : draw_triangle(t, w)
    \/ \E n \in 1..Len(Quads), u \in Coords, v \in Coords : draw_quad(n, <<u, v>>)

SpecPixel == InitPixel /\ [][NextPixel]_vars

(***************************************************************************)
(* Vocabulary of the properties.                                            *)
(***************************************************************************)
\* control point i of a line_vertices list
Point(lv, i) == <<lv[4 * i + 1], lv[4 * i + 2]>>

\* the evenly spaced lattice over [0,1]x[0,1], point (row, col) at index
\* row * (c + 1) + col, each point followed by its two zeros
DefaultLattice(r, c) ==
    [k \in 1..(4 * (r + 1) * (c + 1)) |->
        LET i == (k - 1) \div 4
            o == (k - 1) % 4
        IN IF o = 0 THEN Frac(i % (c + 1), c)
           ELSE IF o = 1 THEN Frac(i \div (c + 1), r)
           ELSE Zero]

\* point i is one of the 4 corners of the cell (col, row) of a grid of c columns
IsCorner(i, c, col, row) ==
    i \in {col + row * (c + 1), col + (row + 1) * (c + 1),
           col + 1 + row * (c + 1), col + 1 + (row + 1) * (c + 1)}

\* the 4 vertices of the cell (col, row) in a vertex list of a grid of r rows:
\* build_grid emits the cells column by column
CellVertices(vs, r, col, row) ==
    PySlice(vs, 4 * VertexSize * (col * r + row), 4 * VertexSize * (col * r + row + 1))

\* the load of file f is one the specification calls a failure
LoadFails(f) ==
    \/ f.kind # "json"
    \/ ~(AllKeys \subseteq f.keys)
    \/ Len(f.calibration) # 2 * (f.rows + 1) * (f.cols + 1)

(***************************************************************************)
(* C1: in every state of a running session, the number of stored control    *)
(* points is (rows+1)*(cols+1), i.e. line_vertices holds 4 floats for each  *)
(* of them.  Fails: a file whose calibration is shorter than its rows and   *)
(* cols require is loaded without any check of its length.                  *)
(***************************************************************************)
C1_PointCount ==
    error = "none" => Len(line_vertices) = 4 * (rows + 1) * (cols + 1)

(***************************************************************************)
(* C2: a load that fails (missing or unparsable file, missing field,        *)
(* calibration of the wrong length) is caught and leaves rows, cols, points *)
(* and mesh as they were before the load: unchanged for the load key, the   *)
(* constructed default grid for the load made by the constructor.  Fails:   *)
(* only the read and the parse are inside the try.                          *)
(***************************************************************************)
C2_LoadAllOrNothing ==
    [][ /\ (event'.type = "load" /\ LoadFails(file))
            => (error' = "none" /\ UNCHANGED grid_vars)
        /\ (event'.type = "restart" /\ LoadFails(file))
            => (error' = "none" /\
                Grid(rows', cols', line_vertices', line_indices', vertices', indices')
                    = default_grid) ]_vars

(***************************************************************************)
(* C3: for every grid (rows, cols >= 1, any point values), build_mapping    *)
(* given get_calibration()'s result yields the same points, element by      *)
(* element in the same order.                                               *)
(***************************************************************************)
C3_RoundTrip ==
    build_mapping_vertices(rows, cols, get_calibration(line_vertices)) = line_vertices

\* a grid with unequal counts and a moved point has gone through the round trip
C3_Witness ==
    /\ event.type = "round_trip"
    /\ rows # cols
    /\ line_vertices # DefaultLattice(rows, cols)

(***************************************************************************)
(* C4: after a save in grid state S, a later load of the file (by the load  *)
(* key or by the constructor of a new session) leaves rows, cols and every  *)
(* point equal to S.  Fails when S is a grid that a file with a calibration *)
(* of the wrong length left behind (C1).                                    *)
(***************************************************************************)
C4_SaveThenLoadRestores ==
    (event.type \in {"load", "restart"} /\ saved # NoSave)
        => <<rows, cols, line_vertices>> = saved

(***************************************************************************)
(* C5: build_mapping() with no calibration produces, for every row in       *)
(* 0..rows and col in 0..cols, points[row*(cols+1)+col] = (col/cols,        *)
(* row/rows).                                                               *)
(***************************************************************************)
C5_DefaultLattice ==
    event.type = "build_mapping" =>
        /\ Len(line_vertices) = 4 * (rows + 1) * (cols + 1)
        /\ \A row \in 0..rows, col \in 0..cols :
              Point(line_vertices, row * (cols + 1) + col)
                  = <<Frac(col, cols), Frac(row, rows)>>

\* a default lattice was built for unequal counts, both above 1
C5_Witness ==
    /\ event.type = "build_mapping"
    /\ rows # cols
    /\ rows > 1
    /\ cols > 1

(***************************************************************************)
(* C6: build_grid produces exactly 4*rows*cols vertices of 14 floats each   *)
(* and exactly 6*rows*cols indices, every index in [0, 4*rows*cols).        *)
(***************************************************************************)
C6_MeshSize ==
    /\ Len(vertices) = VertexSize * 4 * rows * cols
    /\ Len(indices) = 6 * rows * cols
    /\ \A k \in 1..Len(indices) : indices[k] >= 0 /\ indices[k] < 4 * rows * cols

\* the mesh of a grid with unequal counts and a moved point
C6_Witness ==
    /\ event.type = "set_vertice"
    /\ rows # cols
    /\ rows * cols >= 2
    /\ line_vertices # DefaultLattice(rows, cols)

(***************************************************************************)
(* C7: set_vertice(i, x, y), which ends with build_grid(), leaves unchanged *)
(* every mesh vertex of every cell that does not have point i as one of its *)
(* 4 corners.                                                               *)
(***************************************************************************)
C7_SetPointFrame ==
    [][ event'.type = "set_vertice" =>
            \A col \in 0..(cols - 1), row \in 0..(rows - 1) :
                ~IsCorner(event'.arg, cols, col, row) =>
                    CellVertices(vertices', rows, col, row)
                        = CellVertices(vertices, rows, col, row) ]_vars

\* a point was moved off the lattice in a grid with unequal counts that has a
\* cell the point is no corner of, and the mesh differs from the default one
C7_Witness ==
    /\ event.type = "set_vertice"
    /\ rows # cols
    /\ \E col \in 0..(cols - 1), row \in 0..(rows - 1) : ~IsCorner(event.arg, cols, col, row)
    /\ vertices # build_grid_vertices(rows, cols, DefaultLattice(rows, cols))

(***************************************************************************)
(* C8: while armed, a count key sets its count to n+1 (increment) or        *)
(* max(1, n-1) (decrement), leaves the other count alone, and replaces the  *)
(* points by the default lattice of the resulting (rows, cols), whatever    *)
(* they were before.                                                        *)
(***************************************************************************)
C8_CountKeys ==
    [][ (event'.type = "count" /\ event'.arg # KEY_R) =>
            /\ armed
            /\ event'.arg = KEY_X => (rows' = Max(1, rows - 1) /\ cols' = cols)
            /\ event'.arg = KEY_C => (rows' = rows + 1 /\ cols' = cols)
            /\ event'.arg = KEY_V => (cols' = Max(1, cols - 1) /\ rows' = rows)
            /\ event'.arg = KEY_B => (cols' = cols + 1 /\ rows' = rows)
            /\ line_vertices' = DefaultLattice(rows', cols') ]_vars

\* a decrement key was pressed in a session whose row count has been 1 since
\* it started (its file gives 1x1 and no count was incremented): the count is
\* still 1 and the points are the default lattice
C8_Witness ==
    /\ event = Event("count", KEY_X)
    /\ file = JsonFile(AllKeys, 1, 1, <<Frac(1, 2), Frac(1, 2)>>)
    /\ grown = 0
    /\ rows = 1
    /\ line_vertices = DefaultLattice(1, cols)

(***************************************************************************)
(* C9: while the overlay is not armed, every key other than the toggle key  *)
(* leaves the session unchanged: rows, cols, points, mesh, help flag, armed *)
(* flag and the file.                                                       *)
(***************************************************************************)
C9_IgnoredKeys ==
    [][ (~armed /\ \E code \in Keys \ {KEY_F2} : on_key_down(code)) =>
            /\ event'.type = "ignored"
            /\ UNCHANGED <<grid_vars, show_help, armed, g_canvas, file, error>> ]_vars

\* a key was ignored in a disarmed session whose help flag and file had been
\* changed while it was armed
C9_Witness ==
    /\ event.type = "ignored"
    /\ ~armed
    /\ ~show_help
    /\ saved # NoSave

(***************************************************************************)
(* C10: the keys do what the help text says: the key it names for removing  *)
(* (adding) a column changes cols only, the key it names for removing       *)
(* (adding) a row changes rows only.  Fails: the handler binds x/c to rows  *)
(* and v/b to cols.                                                         *)
(***************************************************************************)
C10_HelpMatchesKeys ==
    [][ event'.type = "count" =>
            /\ event'.arg = rebuild_informations_keys.remove_column
                  => (cols' = Max(1, cols - 1) /\ rows' = rows)
            /\ event'.arg = rebuild_informations_keys.add_column
                  => (cols' = cols + 1 /\ rows' = rows)
            /\ event'.arg = rebuild_informations_keys.remove_row
                  => (rows' = Max(1, rows - 1) /\ cols' = cols)
            /\ event'.arg = rebuild_informations_keys.add_row
                  => (rows' = rows + 1 /\ cols' = cols) ]_vars

(***************************************************************************)
(* C11: build_mapping given a calibration whose length differs from         *)
(* 2*(rows+1)*(cols+1) fails instead of building a grid from it: a load of  *)
(* a file that has all three fields and such a calibration ends in an       *)
(* error.  Fails: build_mapping slices the list without looking at its      *)
(* length.                                                                  *)
(***************************************************************************)
C11_LengthMismatchFails ==
    ( /\ event.type \in {"init", "load", "restart"}
      /\ file.kind = "json"
      /\ AllKeys \subseteq file.keys
      /\ Len(file.calibration) # 2 * (file.rows + 1) * (file.cols + 1) )
        => error # "none"

(***************************************************************************)
(* C12: on a parallelogram (b3 = (0,0), cross(b1, b2) # 0) the fragment     *)
(* shader takes the linear branch and the pair it solves for is (u, v) for  *)
(* every fragment at q = u*b1 + v*b2.                                       *)
(***************************************************************************)
C12_ParallelogramExact ==
    ( /\ frag # NoFrag
      /\ frag.src = "quad"
      /\ frag.varyings.b3 = <<Zero, Zero>>
      /\ Wedge2D(frag.varyings.b1, frag.varyings.b2) # Zero )
        => (frag.branch = "linear" /\ frag.uv = frag.at)

\* the fragment at (u, v) = (3/10, 2/5) of the sheared parallelogram with
\* b1 = (1, 1/2), b2 = (1/4, 1) has been shaded
C12_Witness ==
    /\ frag # NoFrag
    /\ frag.src = "quad"
    /\ frag.varyings.b1 = Vec(1, 1, 1, 2)
    /\ frag.varyings.b2 = Vec(1, 4, 1, 1)
    /\ frag.varyings.b3 = <<Zero, Zero>>
    /\ frag.at = <<Frac(3, 10), Frac(2, 5)>>
    /\ frag.uv = frag.at

(***************************************************************************)
(* C13: every set_vertice call made by a move or an up of the pointer uses  *)
(* an index in [0, number of points) of the grid as it is at that call,     *)
(* whatever keys were pressed since the pointer went down.  Fails: a count  *)
(* key pressed during the gesture shrinks the grid under the grabbed index. *)
(***************************************************************************)
C13_TouchIndexInRange ==
    [][ event'.type \in {"touch_move", "touch_up"} =>
            (touch_i >= 0 /\ touch_i < RangeBy4(Len(line_vertices))) ]_vars

(***************************************************************************)
(* C14: after every event, a load that fails included, the stored mesh is   *)
(* build_grid of the current rows, cols and points.  Fails: a load that     *)
(* fails on a missing field or on a zero count has already overwritten      *)
(* rows and cols, and leaves the handler before build_grid() (C2).          *)
(***************************************************************************)
C14_MeshNeverStale ==
    /\ vertices = build_grid_vertices(rows, cols, line_vertices)
    /\ indices = build_grid_indices(rows, cols)

(***************************************************************************)
(* C15: on_touch_down selects the index of a point at minimum distance from *)
(* the touch, and of several points at that distance the one with the       *)
(* smallest index (the points are stored in row-major order).               *)
(***************************************************************************)
TouchDistance2(i) == distance2(Point(line_vertices, i), TouchPos[event.arg])

C15_NearestPoint ==
    (event.type = "touch_down" /\ error = "none") =>
        /\ touch_i \in 0..(RangeBy4(Len(line_vertices)) - 1)
        /\ \A j \in 0..(RangeBy4(Len(line_vertices)) - 1) :
              ~FLess(TouchDistance2(j), TouchDistance2(touch_i))
        /\ \A j \in 0..(touch_i - 1) :
              FLess(TouchDistance2(touch_i), TouchDistance2(j))

\* a touch went down at the same distance from several points of a grid with
\* unequal counts, and not the first point of the grid was selected
C15_Witness ==
    /\ event.type = "touch_down"
    /\ error = "none"
    /\ rows # cols
    /\ touch_i > 0
    /\ \E j \in (touch_i + 1)..(RangeBy4(Len(line_vertices)) - 1) :
          TouchDistance2(j) = TouchDistance2(touch_i)

(***************************************************************************)
(* C16: the overlay's line mesh exists exactly when the overlay is armed.   *)
(* Fails: a move or an up of a touch grabbed before the overlay was         *)
(* disarmed runs update_mesh(), which creates the line mesh again.          *)
(***************************************************************************)
C16_OverlayIffArmed == (g_canvas # NoCanvas) <=> armed

(***************************************************************************)
(* C17: line_indices holds the pair (i, i+1) for every two horizontally     *)
(* adjacent points, in every row 0..rows, and the pair (i, i+cols+1) for    *)
(* every two vertically adjacent points, in every column 0..cols, and every *)
(* index in it is below (rows+1)*(cols+1).  Fails: the loops of             *)
(* build_mapping stop before the last row and the last column of points.    *)
(***************************************************************************)
\* the index pairs of a line list
LinePairs(li) == { <<li[2 * k - 1], li[2 * k]>> : k \in 1..(Len(li) \div 2) }

C17_LineTopologyComplete ==
    /\ \A row \in 0..rows, col \in 0..(cols - 1) :
          <<col + row * (cols + 1), col + row * (cols + 1) + 1>>
              \in LinePairs(line_indices)
    /\ \A row \in 0..(rows - 1), col \in 0..cols :
          <<col + row * (cols + 1), col + row * (cols + 1) + (cols + 1)>>
              \in LinePairs(line_indices)
    /\ \A k \in 1..Len(line_indices) : line_indices[k] < (rows + 1) * (cols + 1)

(***************************************************************************)
(* C18, as stated: set_vertice(i, x, y) replaces point i only and leaves    *)
(* rows, cols, every other point and the current mesh unchanged.  Fails:    *)
(* set_vertice ends with build_grid(), so the mesh changes in the call.     *)
(***************************************************************************)
\* the step is a set_vertice call that replaces point i and no other point
SetPointOnly ==
    /\ rows' = rows
    /\ cols' = cols
    /\ Len(line_vertices') = Len(line_vertices)
    /\ \E p \in 1..Len(TouchPos) : Point(line_vertices', event'.arg) = TouchPos[p]
    /\ \A k \in 1..Len(line_vertices) :
          k \notin {4 * event'.arg + 1, 4 * event'.arg + 2}
              => line_vertices'[k] = line_vertices[k]

C18_SetPointFrame ==
    [][ event'.type = "set_vertice" =>
            (SetPointOnly /\ vertices' = vertices /\ indices' = indices) ]_vars

(***************************************************************************)
(* C18, amended: set_vertice(i, x, y) replaces point i only, leaves rows,   *)
(* cols and every other point unchanged, and rebuilds the mesh itself: on   *)
(* return the mesh is build_grid of the new points.                         *)
(***************************************************************************)
C18_SetPointRebuilds ==
    [][ event'.type = "set_vertice" =>
            /\ SetPointOnly
            /\ vertices' = build_grid_vertices(rows, cols, line_vertices')
            /\ indices' = build_grid_indices(rows, cols) ]_vars

\* a point other than the first was moved to the first touch position, in a
\* grid where another point had been moved before, and the mesh shows it
C18_Witness ==
    /\ event.type = "set_vertice"
    /\ event.arg > 0
    /\ grown = 2
    /\ Point(line_vertices, event.arg) = TouchPos[1]
    /\ \E j \in 0..(RangeBy4(Len(line_vertices)) - 1) :
          j # event.arg /\ Point(line_vertices, j) = TouchPos[2]
    /\ vertices # build_grid_vertices(rows, cols, DefaultLattice(rows, cols))

(***************************************************************************)
(* C19: for every cell (row, col) the mesh has 4 vertices whose positions   *)
(* are, in order, the points col+row*(cols+1), col+(row+1)*(cols+1),        *)
(* (col+1)+row*(cols+1), (col+1)+(row+1)*(cols+1); each of them carries     *)
(* these 4 corners in that order, the texture address (col/cols, row/rows)  *)
(* and the extent (cols, rows); the 6 indices of the cell form two          *)
(* triangles over its own 4 vertices only.  The cells are stored column by  *)
(* column.                                                                  *)
(***************************************************************************)
\* the 4 corner points of the cell (col, row), in the order of the claim
CellCorners(col, row) ==
    << Point(line_vertices, col + row * (cols + 1)),
       Point(line_vertices, col + (row + 1) * (cols + 1)),
       Point(line_vertices, (col + 1) + row * (cols + 1)),
       Point(line_vertices, (col + 1) + (row + 1) * (cols + 1)) >>

C19_CellLayout ==
    \A col \in 0..(cols - 1), row \in 0..(rows - 1) :
        LET k == col * rows + row
            cs == CellCorners(col, row)
            ix == SubSeq(indices, 6 * k + 1, 6 * k + 6)
        IN /\ \A n \in 0..3 :
                 mesh_vertex(vertices, 4 * k + n) =
                     [vPosition |-> cs[n + 1],
                      vQuad0 |-> cs[1], vQuad1 |-> cs[2],
                      vQuad2 |-> cs[3], vQuad3 |-> cs[4],
                      vTex0 |-> <<Frac(col, cols), Frac(row, rows)>>,
                      vSize |-> <<FInt(cols), FInt(rows)>>]
           /\ \A n \in 1..6 : ix[n] \in (4 * k)..(4 * k + 3)
           /\ Cardinality({ix[1], ix[2], ix[3]}) = 3
           /\ Cardinality({ix[4], ix[5], ix[6]}) = 3
           /\ {ix[n] : n \in 1..6} = (4 * k)..(4 * k + 3)

\* the mesh of a grid with more rows than columns and more than one column,
\* built after a point was moved
C19_Witness ==
    /\ event.type = "set_vertice"
    /\ rows > cols
    /\ cols > 1
    /\ CellCorners(cols - 1, rows - 1) # CellCorners(0, 0)
    /\ line_vertices # DefaultLattice(rows, cols)

(***************************************************************************)
(* C20: an uncalibrated grid does not warp.  With the default lattice and   *)
(* the mesh built from it, the fragment shader samples the texture, for a   *)
(* fragment at position (x, y) of any triangle of any cell, at (x, y).      *)
(***************************************************************************)
C20_UncalibratedIdentity ==
    ( /\ frag # NoFrag
      /\ frag.src = "mesh"
      /\ line_vertices = DefaultLattice(rows, cols) )
        => frag.texcoord = frag.vPosition

\* a fragment inside a cell that is neither in the first column nor in the
\* first row of an uncalibrated grid with unequal counts has been shaded
C20_Witness ==
    /\ frag # NoFrag
    /\ frag.src = "mesh"
    /\ line_vertices = DefaultLattice(rows, cols)
    /\ rows # cols
    /\ frag.varyings.q0[1] # Zero
    /\ frag.varyings.q0[2] # Zero
    /\ frag.varyings.q[1] # Zero
    /\ frag.varyings.q[2] # Zero
    /\ frag.varyings.q[1] # frag.varyings.q[2]

====
